---------------------------- MODULE Spec2Model ----------------------------
(***************************************************************************)
(* A model of quiz.py, the interactive Python packaging quiz: main,        *)
(* PackagingQuiz.run_quiz and the methods it calls.  Texts (captured       *)
(* stderr, harness error descriptions, console input lines, directory      *)
(* names) are sequences of one-character strings, so that str.lower,       *)
(* str.strip, int() and the `in` substring test are computed, not assumed. *)
(***************************************************************************)
EXTENDS Integers, Sequences, FiniteSets, TLC

VARIABLES
    pc,               \* position of the control thread in main / run_quiz
    root,             \* the test_cases directory: "missing" or its set of entries
    test_cases,       \* the list run_quiz got from get_test_cases
    idx,              \* enumerate index i of the for loop (1-based), 0 before it
    prediction,       \* the token ask_prediction returned for the fixture
    result,           \* the dict run_test_case returned for the fixture
    correct,          \* the boolean check_prediction returned
    score,            \* self.score
    total_questions,  \* self.total_questions
    temp_dir,         \* whether the TemporaryDirectory of run_test_case exists
    child,            \* the child process of run_test_case
    alive,            \* the child processes that are running
    main_file,        \* the entry file run_test_case chose
    reprompts,        \* invalid lines read by the current ask_prediction call
    exit_kind,        \* how main ended
    child_exit,       \* what the child of the current call left: status and output
    final_report,     \* what display_final_score printed
    shown,            \* what display_result printed and the user has before them
    elapsed,          \* seconds subprocess.run has waited for the running child
    log               \* the steps taken so far, <<step, fixture index>>

vars == <<pc, root, test_cases, idx, prediction, result, correct, score,
          total_questions, temp_dir, child, main_file, reprompts, exit_kind,
          child_exit, final_report, shown, elapsed, alive, log>>

(***************************************************************************)
(* Bounds of the model.                                                    *)
(***************************************************************************)
\* entries of the test_cases directory
MaxEntries == 2
\* fragments an enumerated stderr text is concatenated from
MaxFrags == 2
\* invalid lines one ask_prediction call reads before a valid one
MaxReprompts == 2

(***************************************************************************)
(* Text: str.lower and the substring test.                                 *)
(***************************************************************************)
UpperLetters ==
    <<"A","B","C","D","E","F","G","H","I","J","K","L","M",
      "N","O","P","Q","R","S","T","U","V","W","X","Y","Z">>
LowerLetters ==
    <<"a","b","c","d","e","f","g","h","i","j","k","l","m",
      "n","o","p","q","r","s","t","u","v","w","x","y","z">>

\* str.lower on one character
lower_char(c) ==
    IF \E k \in 1..26 : UpperLetters[k] = c
    THEN LowerLetters[CHOOSE k \in 1..26 : UpperLetters[k] = c]
    ELSE c

\* mutant of lower: the text is compared in the case it was captured in
lower_not_applied(s) == s

\* str.lower
lower(s) == [k \in 1..Len(s) |-> lower_char(s[k])]

\* needle in hay
contains(needle, hay) ==
    \E k \in 0..(Len(hay) - Len(needle)) :
        SubSeq(hay, k + 1, k + Len(needle)) = needle

\* the marker substrings check_prediction looks for
S_importerror ==
    <<"i","m","p","o","r","t","e","r","r","o","r">>
S_modulenotfounderror ==
    <<"m","o","d","u","l","e","n","o","t","f","o","u","n","d","e","r","r","o","r">>
S_no_module_named ==
    <<"n","o"," ","m","o","d","u","l","e"," ","n","a","m","e","d">>
S_attributeerror ==
    <<"a","t","t","r","i","b","u","t","e","e","r","r","o","r">>
S_syntaxerror ==
    <<"s","y","n","t","a","x","e","r","r","o","r">>

\* the harness error descriptions of run_test_case
ErrNoMainFile ==
    <<"N","o"," ","m","a","i","n"," ","e","x","e","c","u","t","i","o","n"," ","f","i","l","e"," ","f","o","u","n","d"," ","(","m","a","i","n",".","p","y",","," ","r","u","n",".","p","y",","," ","o","r"," ","t","e","s","t",".","p","y",")">>
ErrTimedOut ==
    <<"T","e","s","t"," ","t","i","m","e","d"," ","o","u","t"," ","(","1","0"," ","s","e","c","o","n","d","s",")">>
ErrFailedPrefix ==
    <<"F","a","i","l","e","d"," ","t","o"," ","r","u","n"," ","t","e","s","t",":"," ">>

(***************************************************************************)
(* What a child process and a failing spawn can write: fragments of        *)
(* interpreter diagnostics, in the letter case the interpreter uses and in *)
(* pieces that only form a marker once concatenated.                       *)
(***************************************************************************)
F_ModuleNotFoundError ==
    <<"M","o","d","u","l","e","N","o","t","F","o","u","n","d","E","r","r","o","r">>
F_NoModuleNamed ==
    <<":"," ","N","o"," ","m","o","d","u","l","e"," ","n","a","m","e","d"," ","'","x","'">>
F_ImportError ==
    <<"I","m","p","o","r","t","E","r","r","o","r">>
F_Import ==
    <<"I","m","p","o","r","t">>
F_Error ==
    <<"E","r","r","o","r">>
F_AttributeError ==
    <<"A","t","t","r","i","b","u","t","e","E","r","r","o","r">>
F_SyntaxError ==
    <<"S","y","n","t","a","x","E","r","r","o","r">>
F_no_module ==
    <<"N","O"," ","M","O","D","U","L","E">>
F_named ==
    <<" ","N","A","M","E","D"," ","y">>
F_Traceback ==
    <<"T","r","a","c","e","b","a","c","k"," ">>
F_ValueError ==
    <<"V","a","l","u","e","E","r","r","o","r",":"," ","b","a","d">>
MsgPermissionDenied ==
    <<"[","E","r","r","n","o"," ","1","3","]"," ","P","e","r","m","i","s","s","i","o","n"," ","d","e","n","i","e","d">>
T_ok ==
    <<"o","k">>

Fragments ==
    { F_ModuleNotFoundError, F_NoModuleNamed, F_ImportError, F_Import, F_Error,
      F_AttributeError, F_SyntaxError, F_no_module, F_named, F_Traceback }

RECURSIVE TextsUpTo(_)
\* every concatenation of at most n fragments
TextsUpTo(n) ==
    IF n = 0 THEN { <<>> }
    ELSE LET shorter == TextsUpTo(n - 1)
         IN  shorter \cup { t \o f : t \in shorter, f \in Fragments }

Texts == TextsUpTo(MaxFrags)

\* str(e) of an exception subprocess.run raised
ExceptionTexts == { MsgPermissionDenied, F_ImportError }

\* str(e) of the spawn failures of the quiz run
SpawnExceptionTexts == { MsgPermissionDenied }

\* the "error" values run_test_case can put in a result
ErrorTexts ==
    { ErrNoMainFile, ErrTimedOut } \cup { ErrFailedPrefix \o m : m \in ExceptionTexts }

(***************************************************************************)
(* check_prediction                                                        *)
(***************************************************************************)
\* dict.get(key, default)
get(d, key, default) == IF key \in DOMAIN d THEN d[key] ELSE default

\* mutant of check_importerror: the success flag is not consulted
check_importerror_ignoring_success(actual_success, stderr, error) ==
    contains(S_importerror, stderr) \/ contains(S_importerror, error)

check_importerror(actual_success, stderr, error) ==
    ~actual_success
    /\ (contains(S_importerror, stderr) \/ contains(S_importerror, error))

check_modulenotfounderror(actual_success, stderr, error) ==
    ~actual_success
    /\ (contains(S_modulenotfounderror, stderr) \/ contains(S_no_module_named, stderr))

check_attributeerror(actual_success, stderr, error) ==
    ~actual_success
    /\ (contains(S_attributeerror, stderr) \/ contains(S_attributeerror, error))

check_syntaxerror(actual_success, stderr, error) ==
    ~actual_success
    /\ (contains(S_syntaxerror, stderr) \/ contains(S_syntaxerror, error))

\* mutant of check_other: "importerror" is missing from the marker list
check_other_without_importerror(actual_success, stderr, error) ==
    ~actual_success
    /\ ~ \E err \in { S_modulenotfounderror, S_attributeerror, S_syntaxerror } :
            contains(err, stderr)

\* mutant of check_other: a failure with an empty stderr is not "other"
check_other_requiring_stderr(actual_success, stderr, error) ==
    ~actual_success
    /\ stderr # <<>>
    /\ ~ \E err \in { S_importerror, S_modulenotfounderror,
                      S_attributeerror, S_syntaxerror } : contains(err, stderr)

check_other(actual_success, stderr, error) ==
    ~actual_success
    /\ ~ \E err \in { S_importerror, S_modulenotfounderror,
                      S_attributeerror, S_syntaxerror } : contains(err, stderr)

\* mutant of check_prediction: no early return for "skip", and the last
\* branch is a plain else
check_prediction_skip_unguarded(p, r) ==
    LET actual_success == get(r, "success", FALSE)
        stderr == lower(get(r, "stderr", <<>>))
        error == lower(get(r, "error", <<>>))
    IN  CASE p = "success" -> actual_success
          [] p = "importerror" -> check_importerror(actual_success, stderr, error)
          [] p = "modulenotfounderror" ->
                 check_modulenotfounderror(actual_success, stderr, error)
          [] p = "attributeerror" ->
                 check_attributeerror(actual_success, stderr, error)
          [] p = "syntaxerror" -> check_syntaxerror(actual_success, stderr, error)
          [] OTHER -> check_other(actual_success, stderr, error)

check_prediction(p, r) ==
    IF p = "skip" THEN FALSE
    ELSE LET actual_success == get(r, "success", FALSE)
             stderr == lower(get(r, "stderr", <<>>))
             error == lower(get(r, "error", <<>>))
         IN  CASE p = "success" -> actual_success
               [] p = "importerror" -> check_importerror(actual_success, stderr, error)
               [] p = "modulenotfounderror" ->
                      check_modulenotfounderror(actual_success, stderr, error)
               [] p = "attributeerror" ->
                      check_attributeerror(actual_success, stderr, error)
               [] p = "syntaxerror" -> check_syntaxerror(actual_success, stderr, error)
               [] p = "other" -> check_other(actual_success, stderr, error)
               [] OTHER -> FALSE


(***************************************************************************)
(* The test_cases directory and get_test_cases.  An entry is a name, a     *)
(* kind, and the candidate entry files it holds.                           *)
(***************************************************************************)
\* the characters of entry names, in code point order
CharOrder ==
    <<".","0","1","2","3","4","5","6","7","8","9",
      "A","B","C","D","E","F","G","H","I","J","K","L","M",
      "N","O","P","Q","R","S","T","U","V","W","X","Y","Z","_",
      "a","b","c","d","e","f","g","h","i","j","k","l","m",
      "n","o","p","q","r","s","t","u","v","w","x","y","z">>

ord(c) == CHOOSE k \in 1..Len(CharOrder) : CharOrder[k] = c

\* a < b for str: the first differing character decides, a proper prefix is less
str_less(a, b) ==
    \E k \in 1..Len(b) :
        /\ \A j \in 1..(k - 1) : j <= Len(a) /\ a[j] = b[j]
        /\ k - 1 <= Len(a)
        /\ (k > Len(a) \/ ord(a[k]) < ord(b[k]))

\* str.startswith
startswith(s, prefix) ==
    Len(prefix) <= Len(s) /\ SubSeq(s, 1, Len(prefix)) = prefix

RECURSIVE sorted(_)
\* sorted(paths): ascending by name (the paths share their parent)
sorted(S) ==
    IF S = {} THEN <<>>
    ELSE LET least == CHOOSE d \in S : \A e \in S \ {d} : str_less(d.name, e.name)
         IN  <<least>> \o sorted(S \ {least})

\* what the directory may hold: fixtures with each kind of entry file set, a
\* hidden directory and a plain file; names chosen so that the lexical order
\* differs from the numeric one ("1" sorts between "02" and "10")
EntryUniverse ==
    { [name |-> <<"0","2">>, is_dir |-> TRUE,
       files |-> {"main.py", "run.py", "test.py"}],
      [name |-> <<"1","0">>, is_dir |-> TRUE,  files |-> {"run.py", "test.py"}],
      [name |-> <<"1">>,     is_dir |-> TRUE,  files |-> {}],
      [name |-> <<".","g">>, is_dir |-> TRUE,  files |-> {"main.py"}],
      [name |-> <<"R">>,     is_dir |-> FALSE, files |-> {}] }

Roots ==
    { [exists |-> FALSE, entries |-> {}] }
    \cup { [exists |-> TRUE, entries |-> S] :
              S \in { T \in SUBSET EntryUniverse : Cardinality(T) <= MaxEntries } }

\* self.test_cases_dir.iterdir(): the entries, each once, in an order the
\* file system chooses
iterdir(r) ==
    { l \in [1..Cardinality(r.entries) -> r.entries] :
          \A i, j \in 1..Cardinality(r.entries) : l[i] = l[j] => i = j }

\* the list comprehension: the directories among the entries, in the order
\* of the listing, whose name does not start with "."
visible_dirs(listing) ==
    SelectSeq(listing, LAMBDA d : d.is_dir /\ ~startswith(d.name, <<".">>))

\* mutant of get_test_cases: hidden directories are kept
get_test_cases_with_hidden(r, listing) ==
    IF ~r.exists THEN <<>>
    ELSE LET kept == SelectSeq(listing, LAMBDA d : d.is_dir)
         IN  sorted({ kept[k] : k \in 1..Len(kept) })

\* mutant of get_test_cases: the list is returned in the order of the listing
get_test_cases_unsorted(r, listing) ==
    IF ~r.exists THEN <<>>
    ELSE visible_dirs(listing)

\* get_test_cases with the directory listed in the order listing
get_test_cases(r, listing) ==
    IF ~r.exists THEN <<>>
    ELSE LET kept == visible_dirs(listing)
         IN  sorted({ kept[k] : k \in 1..Len(kept) })


(***************************************************************************)
(* ask_prediction: one line read from the console.                         *)
(***************************************************************************)
Whitespace == {" ", "\t"}

\* str.strip
strip(s) ==
    LET kept == { k \in 1..Len(s) : s[k] \notin Whitespace }
    IN  IF kept = {} THEN <<>>
        ELSE SubSeq(s, CHOOSE k \in kept : \A j \in kept : k <= j,
                       CHOOSE k \in kept : \A j \in kept : j <= k)

Digits == <<"0","1","2","3","4","5","6","7","8","9">>

is_digit(c) == \E k \in 1..10 : Digits[k] = c

digit_value(c) == (CHOOSE k \in 1..10 : Digits[k] = c) - 1

RECURSIVE digits_value(_)
digits_value(s) ==
    IF s = <<>> THEN 0
    ELSE 10 * digits_value(SubSeq(s, 1, Len(s) - 1)) + digit_value(s[Len(s)])

\* int(s): an optional sign and at least one digit, else ValueError
int(s) ==
    LET signed == Len(s) > 0 /\ s[1] \in {"+", "-"}
        body == IF signed THEN Tail(s) ELSE s
    IN  IF Len(body) = 0 \/ \E k \in 1..Len(body) : ~is_digit(body[k])
        THEN [ok |-> FALSE, value |-> 0]
        ELSE [ok |-> TRUE,
              value |-> IF signed /\ s[1] = "-" THEN 0 - digits_value(body)
                        ELSE digits_value(body)]

predictions ==
    <<"success", "importerror", "modulenotfounderror",
      "attributeerror", "syntaxerror", "other">>

\* mutant of ask_prediction: "skip" is compared before .lower() is applied
ask_prediction_skip_case_sensitive(line) ==
    LET choice == strip(line)
    IN  IF choice = <<"s","k","i","p">> THEN "skip"
        ELSE LET choice_num == int(lower(choice))
             IN  IF ~choice_num.ok THEN "reprompt"
                 ELSE IF 1 <= choice_num.value /\ choice_num.value <= 6
                      THEN predictions[choice_num.value]
                      ELSE "reprompt"

\* one pass of the while loop on the line read: the token returned, or
\* "reprompt" when the loop goes round again
ask_prediction(line) ==
    LET choice == lower(strip(line))
    IN  IF choice = <<"s","k","i","p">> THEN "skip"
        ELSE LET choice_num == int(choice)
             IN  IF ~choice_num.ok THEN "reprompt"
                 ELSE IF 1 <= choice_num.value /\ choice_num.value <= 6
                      THEN predictions[choice_num.value]
                      ELSE "reprompt"

\* lines a user may type
InputLines ==
    { <<"s","k","i","p">>, <<" ","S","k","i","p"," ">>, <<"s","k","i","p","p">>,
      <<"1">>, <<"2">>, <<"3">>, <<"4">>, <<"5">>, <<"6">>,
      <<" ","3"," ">>, <<"+","2">>, <<"0","6">>,
      <<"0">>, <<"7">>, <<"-","1">>, <<"1","2">>,
      <<"a","b","c">>, <<>>, <<"1",".","5">>, <<"S","u","c","c","e","s","s">> }


(***************************************************************************)
(* run_test_case                                                           *)
(***************************************************************************)
\* mutant of main_files: the candidates in the opposite order
main_files_reversed == <<"test.py", "run.py", "main.py">>

main_files == <<"main.py", "run.py", "test.py">>

\* the first candidate that exists in the copied fixture, "none" when none does
find_main_file(files) ==
    IF \E k \in 1..Len(main_files) : main_files[k] \in files
    THEN main_files[CHOOSE k \in 1..Len(main_files) :
                       /\ main_files[k] \in files
                       /\ \A j \in 1..(k - 1) : main_files[j] \notin files]
    ELSE "none"

\* the process subprocess.run starts for fixture i: the interpreter on the
\* entry file, a path below test_copy, with test_copy as working directory
run_args(i, filename) ==
    [fixture |-> i,
     file |-> [parent |-> "test_copy", name |-> filename],
     cwd |-> "test_copy"]

\* the dict returned on the harness error paths
harness_error(description) ==
    [success |-> FALSE, error |-> description, output |-> <<>>, stderr |-> <<>>]

\* the dict returned when subprocess.run returned
completed(returncode, stdout, stderr) ==
    [success |-> (returncode = 0), returncode |-> returncode,
     output |-> stdout, stderr |-> stderr]

\* how the children of the quiz run end: exit status, stdout, stderr
ChildOutcomes ==
    { [returncode |-> 0, stdout |-> T_ok, stderr |-> <<>>],
      [returncode |-> 0, stdout |-> <<>>, stderr |-> F_Traceback \o F_ImportError],
      [returncode |-> 1, stdout |-> <<>>,
       stderr |-> F_Traceback \o F_ModuleNotFoundError \o F_NoModuleNamed],
      [returncode |-> 1, stdout |-> T_ok, stderr |-> F_Traceback \o F_ImportError],
      [returncode |-> 1, stdout |-> <<>>,
       stderr |-> F_ImportError \o F_Traceback \o F_ModuleNotFoundError
                    \o F_NoModuleNamed],
      [returncode |-> 1, stdout |-> <<>>, stderr |-> F_Error \o F_NoModuleNamed],
      [returncode |-> 1, stdout |-> <<>>, stderr |-> F_Traceback \o F_AttributeError],
      [returncode |-> 1, stdout |-> <<>>, stderr |-> F_SyntaxError],
      [returncode |-> 1, stdout |-> T_ok, stderr |-> F_ValueError] }

ReturnCodes == {0, 1}

\* timeout=10
timeout == 10

\* a byte that is not valid in the encoding of the pipes
InvalidByte == "0xFF"

\* children that write "\r\n" line ends, and bytes that are no text
ByteOutcomes ==
    { [returncode |-> 1, stdout |-> <<"a","\r","\n","b","\r">>,
       stderr |-> F_SyntaxError \o <<"\r","\n">>],
      [returncode |-> 0, stdout |-> <<InvalidByte>> \o T_ok, stderr |-> <<>>] }

\* universal newlines of text=True: "\r\n" and "\r" become "\n"
translate_newlines(s) ==
    LET positions == [k \in 1..Len(s) |-> k]
        \* the "\n" of a "\r\n" pair goes, every other character stays
        kept == SelectSeq(positions,
                          LAMBDA k : ~(s[k] = "\n" /\ k > 1 /\ s[k - 1] = "\r"))
    IN  [j \in 1..Len(kept) |-> IF s[kept[j]] = "\r" THEN "\n" ELSE s[kept[j]]]

\* the captured bytes as text (text=True): UnicodeDecodeError on an invalid byte
decode(bytes) ==
    IF \E k \in 1..Len(bytes) : bytes[k] = InvalidByte
    THEN [ok |-> FALSE, text |-> <<>>]
    ELSE [ok |-> TRUE, text |-> translate_newlines(bytes)]

MsgDecodeError ==
    <<"'","u","t","f","-","8","'"," ","c","o","d","e","c"," ","c","a","n","'","t"," ","d","e","c","o","d","e"," ","b","y","t","e"," ","0","x","f","f">>
MsgTimeoutExpired ==
    <<"C","o","m","m","a","n","d"," ","t","i","m","e","d"," ","o","u","t"," ","a","f","t","e","r"," ","1","0"," ","s","e","c","o","n","d","s">>

(***************************************************************************)
(* Exceptions: the classes raised in run_quiz, their base classes, and the *)
(* except clauses of run_test_case and main in the order they are written. *)
(***************************************************************************)
bases(exc) ==
    CASE exc = "KeyboardInterrupt" -> {"KeyboardInterrupt", "BaseException"}
      [] exc = "TimeoutExpired" ->
             {"TimeoutExpired", "SubprocessError", "Exception", "BaseException"}
      [] exc = "OSError" -> {"OSError", "Exception", "BaseException"}
      [] exc = "EOFError" -> {"EOFError", "Exception", "BaseException"}
      [] exc = "UnicodeDecodeError" ->
             {"UnicodeDecodeError", "ValueError", "Exception", "BaseException"}
      [] OTHER -> {exc, "BaseException"}

\* the first except clause that takes exc, 0 when none does
first_handler(handlers, exc) ==
    IF \E k \in 1..Len(handlers) : handlers[k] \in bases(exc)
    THEN CHOOSE k \in 1..Len(handlers) :
             /\ handlers[k] \in bases(exc)
             /\ \A j \in 1..(k - 1) : handlers[j] \notin bases(exc)
    ELSE 0

\* mutant of run_test_case_handlers: the two clauses in the other order
run_test_case_handlers_swapped == <<"Exception", "TimeoutExpired">>

\* mutant of run_test_case_handlers: the second clause takes every exception
run_test_case_handlers_catch_all == <<"TimeoutExpired", "BaseException">>

\* mutant of main_handlers: main has no catch-all clause
main_handlers_interrupt_only == <<"KeyboardInterrupt">>

\* except subprocess.TimeoutExpired / except Exception as e
run_test_case_handlers == <<"TimeoutExpired", "Exception">>

\* except KeyboardInterrupt / except Exception as e
main_handlers == <<"KeyboardInterrupt", "Exception">>

\* the dict the except clause of run_test_case returns for exc with str(e) = msg
run_test_case_except(exc, msg) ==
    IF run_test_case_handlers[first_handler(run_test_case_handlers, exc)]
           = "TimeoutExpired"
    THEN harness_error(ErrTimedOut)
    ELSE harness_error(ErrFailedPrefix \o msg)

\* how main ends when exc leaves run_quiz
main_exit(exc) ==
    IF first_handler(main_handlers, exc) = 0 THEN "crashed"
    ELSE IF main_handlers[first_handler(main_handlers, exc)] = "KeyboardInterrupt"
         THEN "interrupted"
         ELSE "error"

(***************************************************************************)
(* display_final_score: the percentage is score / total_questions * 100,   *)
(* kept as a fraction num/den; the division raises on a zero divisor.      *)
(***************************************************************************)
percent == 100
excellent == 90
good == 70
not_bad == 50

\* (self.score / self.total_questions) * 100
percentage_of(s, t) ==
    IF t = 0 THEN [raised |-> "ZeroDivisionError"]
    ELSE [num |-> s * percent, den |-> t]

\* percentage >= threshold
at_least(p, threshold) == p.num >= threshold * p.den

\* the message chosen by the if/elif chain
tier(p) ==
    IF at_least(p, excellent) THEN "excellent"
    ELSE IF at_least(p, good) THEN "good"
    ELSE IF at_least(p, not_bad) THEN "not_bad"
    ELSE "keep_practicing"

\* the lines of the score branch
score_report(s, t) ==
    IF "raised" \in DOMAIN percentage_of(s, t)
    THEN percentage_of(s, t)
    ELSE [kind |-> "score", divided |-> TRUE, score |-> s, total |-> t,
          tier |-> tier(percentage_of(s, t))]

\* mutant of display_final_score: the percentage is computed unconditionally
display_final_score_unguarded(s, t) == score_report(s, t)

\* what display_final_score prints, or the exception it raises
display_final_score(s, t) ==
    IF t > 0
    THEN score_report(s, t)
    ELSE [kind |-> "no_questions", divided |-> FALSE]

(***************************************************************************)
(* display_result: the outcome lines and the verdict line it prints.       *)
(***************************************************************************)
\* mutant of display_result: a skipped round shows the verdict line only
display_result_verdict_only_for_skip(r, p, c) ==
    IF p = "skip"
    THEN [headline |-> "", error |-> <<>>, details |-> <<>>, output |-> <<>>,
          verdict |-> "SKIPPED"]
    ELSE [headline |-> IF get(r, "success", FALSE) THEN "SUCCESS" ELSE "ERROR",
          error |-> IF ~get(r, "success", FALSE) /\ "error" \in DOMAIN r
                    THEN r.error ELSE <<>>,
          details |-> IF get(r, "success", FALSE) THEN <<>>
                      ELSE get(r, "stderr", <<>>),
          output |-> get(r, "output", <<>>),
          verdict |-> IF c THEN "CORRECT" ELSE "INCORRECT"]

\* the headline, the error text, the stderr and the output of the result,
\* then the verdict on the prediction
display_result(r, p, c) ==
    [headline |-> IF get(r, "success", FALSE) THEN "SUCCESS" ELSE "ERROR",
     error |-> IF ~get(r, "success", FALSE) /\ "error" \in DOMAIN r
               THEN r.error ELSE <<>>,
     details |-> IF get(r, "success", FALSE) THEN <<>> ELSE get(r, "stderr", <<>>),
     output |-> get(r, "output", <<>>),
     verdict |-> IF p # "skip"
                 THEN IF c THEN "CORRECT" ELSE "INCORRECT"
                 ELSE "SKIPPED"]

(***************************************************************************)
(* State                                                                   *)
(***************************************************************************)
NoResult == [unset |-> TRUE]

\* no child of the current run_test_case call has exited
NoProcess == [unset |-> TRUE]

\* no result is on display
NoDisplay == [unset |-> TRUE]

\* display_final_score has not run
NoReport == [kind |-> "none"]

Init ==
    /\ pc = "run_quiz"
    /\ root \in Roots
    /\ test_cases = <<>>
    /\ idx = 0
    /\ prediction = "none"
    /\ result = NoResult
    /\ correct = FALSE
    /\ score = 0
    /\ total_questions = 0
    /\ temp_dir = FALSE
    /\ child = "none"
    /\ main_file = "none"
    /\ reprompts = 0
    /\ exit_kind = "running"
    /\ child_exit = NoProcess
    /\ final_report = NoReport
    /\ shown = NoDisplay
    /\ elapsed = 0
    /\ alive = {}
    /\ log = <<>>

Logged(steps) == log' = log \o [k \in 1..Len(steps) |-> <<steps[k], idx>>]

\* the running processes once subprocess.run has let go of the child of the
\* call for fixture i: it returns or raises only after that child has ended
reaped(procs, i) == { p \in procs : p.fixture # i }

\* an exception or interrupt leaves run_quiz: main's handler prints and returns
Leave(kind) ==
    /\ pc' = "Done"
    /\ exit_kind' = kind
    /\ temp_dir' = FALSE
    /\ child' = IF child = "running" THEN "killed" ELSE child
    /\ alive' = reaped(alive, idx)

\* mutant of RaisedInTry: a handled exception leaves the child as it is
RaisedInTryChildAbandoned(exc, msg) ==
    /\ elapsed' = 0
    /\ IF first_handler(run_test_case_handlers, exc) # 0
       THEN /\ result' = run_test_case_except(exc, msg)
            /\ temp_dir' = FALSE
            /\ pc' = "Check"
            /\ Logged(<<"run_return">>)
            /\ UNCHANGED <<child, alive, exit_kind>>
       ELSE /\ Leave(main_exit(exc))
            /\ UNCHANGED <<result, log>>

\* exc is raised inside the try of run_test_case: subprocess.run has killed a
\* child still running, the with block removes the directory, and an except
\* clause returns a result or the exception leaves run_quiz
RaisedInTry(exc, msg) ==
    /\ elapsed' = 0
    /\ IF first_handler(run_test_case_handlers, exc) # 0
       THEN /\ result' = run_test_case_except(exc, msg)
            /\ child' = IF child = "running" THEN "killed" ELSE child
            /\ alive' = reaped(alive, idx)
            /\ temp_dir' = FALSE
            /\ pc' = "Check"
            /\ Logged(<<"run_return">>)
            /\ UNCHANGED exit_kind
       ELSE /\ Leave(main_exit(exc))
            /\ UNCHANGED <<result, log>>

(***************************************************************************)
(* run_quiz, one action per step                                           *)
(***************************************************************************)
\* mutant of ListTestCases: with no test case the final score is displayed
ListTestCasesThenScore ==
    /\ pc = "run_quiz"
    /\ \E listing \in iterdir(root) :
         /\ test_cases' = get_test_cases(root, listing)
         /\ IF Len(get_test_cases(root, listing)) = 0
            THEN pc' = "FinalScore"
            ELSE pc' = "StartPrompt"
    /\ UNCHANGED <<root, idx, prediction, result, correct, score, total_questions,
                   temp_dir, child, alive, main_file, reprompts, exit_kind, log>>
    /\ UNCHANGED <<child_exit, final_report, shown, elapsed>>

\* test_cases = self.get_test_cases(); if not test_cases: return
ListTestCases ==
    /\ pc = "run_quiz"
    /\ \E listing \in iterdir(root) :
         /\ test_cases' = get_test_cases(root, listing)
         /\ IF Len(get_test_cases(root, listing)) = 0
            THEN pc' = "Done" /\ exit_kind' = "no_test_cases"
            ELSE pc' = "StartPrompt" /\ UNCHANGED exit_kind
    /\ UNCHANGED <<root, idx, prediction, result, correct, score, total_questions,
                   temp_dir, child, alive, main_file, reprompts, log>>
    /\ UNCHANGED <<child_exit, final_report, shown, elapsed>>

\* input("Press Enter to start the quiz...") returned; the loop starts
StartQuiz ==
    /\ pc = "StartPrompt"
    /\ idx' = 1
    /\ pc' = "Displaying"
    /\ UNCHANGED <<root, test_cases, prediction, result, correct, score,
                   total_questions, temp_dir, child, alive, main_file, reprompts,
                   exit_kind, log>>
    /\ UNCHANGED <<child_exit, final_report, shown, elapsed>>

\* mutant of DisplayTestCase: the fixture is run right after its display,
\* before the prediction is asked for
DisplayThenRun ==
    /\ pc = "Displaying"
    /\ pc' = "Running"
    /\ reprompts' = 0
    /\ Logged(<<"display">>)
    /\ UNCHANGED <<root, test_cases, idx, prediction, result, correct, score,
                   total_questions, temp_dir, child, alive, main_file, exit_kind>>
    /\ UNCHANGED <<child_exit, final_report, shown, elapsed>>

\* display_file_structure and display_file_contents of the fixture
DisplayTestCase ==
    /\ pc = "Displaying"
    /\ pc' = "AwaitingPrediction"
    /\ reprompts' = 0
    /\ Logged(<<"display">>)
    /\ UNCHANGED <<root, test_cases, idx, prediction, result, correct, score,
                   total_questions, temp_dir, child, alive, main_file, exit_kind>>
    /\ UNCHANGED <<child_exit, final_report, shown, elapsed>>

\* ask_prediction reads a line: it returns a token or prompts again
AskPrediction ==
    /\ pc = "AwaitingPrediction"
    /\ \E line \in InputLines :
         IF ask_prediction(line) = "reprompt"
         THEN /\ reprompts < MaxReprompts
              /\ reprompts' = reprompts + 1
              /\ UNCHANGED <<pc, prediction, log>>
         ELSE /\ prediction' = ask_prediction(line)
              /\ pc' = "Running"
              /\ Logged(<<"predicted">>)
              /\ UNCHANGED reprompts
    /\ UNCHANGED <<root, test_cases, idx, result, correct, score, total_questions,
                   temp_dir, child, alive, main_file, exit_kind>>
    /\ UNCHANGED <<child_exit, final_report, shown, elapsed>>

\* mutant of CopyTestCase: a skipped fixture is not run, the round goes on to
\* its report
CopyTestCaseUnlessSkipped ==
    /\ pc = "Running"
    /\ child_exit' = NoProcess
    /\ IF prediction = "skip"
       THEN /\ pc' = "Check"
            /\ UNCHANGED <<temp_dir, log>>
       ELSE /\ temp_dir' = TRUE
            /\ pc' = "Locate"
            /\ Logged(<<"run_call">>)
    /\ UNCHANGED <<root, test_cases, idx, prediction, result, correct, score,
                   total_questions, child, alive, main_file, reprompts, exit_kind>>
    /\ UNCHANGED <<final_report, shown, elapsed>>

\* run_test_case: the temporary directory is made and the fixture copied into it
CopyTestCase ==
    /\ pc = "Running"
    /\ temp_dir' = TRUE
    /\ pc' = "Locate"
    /\ child_exit' = NoProcess
    /\ Logged(<<"run_call">>)
    /\ UNCHANGED <<root, test_cases, idx, prediction, result, correct, score,
                   total_questions, child, alive, main_file, reprompts, exit_kind>>
    /\ UNCHANGED <<final_report, shown, elapsed>>

\* shutil.copytree raises: it is outside the try, so the exception leaves
\* run_test_case (the with block removes the directory) and run_quiz
CopyRaises ==
    /\ pc = "Running"
    /\ Logged(<<"run_call">>)
    /\ \E exc \in {"OSError"} : Leave(main_exit(exc))
    /\ UNCHANGED <<root, test_cases, idx, prediction, result, correct, score,
                   total_questions, main_file, reprompts>>
    /\ UNCHANGED <<child_exit, final_report, shown, elapsed>>

\* mutant of LocateMainFile: no return when no entry file is found
LocateMainFileWithoutReturn ==
    /\ pc = "Locate"
    /\ main_file' = find_main_file(test_cases[idx].files)
    /\ pc' = "Spawn"
    /\ UNCHANGED <<root, test_cases, idx, prediction, result, correct, score,
                   total_questions, temp_dir, child, alive, reprompts, exit_kind, log>>
    /\ UNCHANGED <<child_exit, final_report, shown, elapsed>>

\* the entry file is looked up; with none the call returns an error result
LocateMainFile ==
    /\ pc = "Locate"
    /\ LET found == find_main_file(test_cases[idx].files)
       IN  /\ main_file' = found
           /\ IF found = "none"
              THEN /\ result' = harness_error(ErrNoMainFile)
                   /\ temp_dir' = FALSE
                   /\ pc' = "Check"
                   /\ Logged(<<"run_return">>)
              ELSE /\ pc' = "Spawn"
                   /\ UNCHANGED <<result, temp_dir, log>>
    /\ UNCHANGED <<root, test_cases, idx, prediction, correct, score,
                   total_questions, child, alive, reprompts, exit_kind>>
    /\ UNCHANGED <<child_exit, final_report, shown, elapsed>>

\* mutant of SpawnChild: a child is started on every candidate that exists
SpawnChildPerCandidate ==
    /\ pc = "Spawn"
    /\ child' = "running"
    /\ alive' = alive \cup { run_args(idx, f) : f \in test_cases[idx].files }
    /\ pc' = "Waiting"
    /\ Logged(<<"launch">>)
    /\ UNCHANGED <<root, test_cases, idx, prediction, result, correct, score,
                   total_questions, temp_dir, main_file, reprompts, exit_kind>>
    /\ UNCHANGED <<child_exit, final_report, shown, elapsed>>

\* subprocess.run starts the child
SpawnChild ==
    /\ pc = "Spawn"
    /\ child' = "running"
    /\ alive' = alive \cup {run_args(idx, main_file)}
    /\ pc' = "Waiting"
    /\ Logged(<<"launch">>)
    /\ UNCHANGED <<root, test_cases, idx, prediction, result, correct, score,
                   total_questions, temp_dir, main_file, reprompts, exit_kind>>
    /\ UNCHANGED <<child_exit, final_report, shown, elapsed>>

\* subprocess.run raises before a child runs
SpawnRaises ==
    /\ pc = "Spawn"
    /\ \E e \in SpawnExceptionTexts : RaisedInTry("OSError", e)
    /\ UNCHANGED <<root, test_cases, idx, prediction, correct, score,
                   total_questions, main_file, reprompts>>
    /\ UNCHANGED <<child_exit, final_report, shown>>

\* a second passes with the child still running
WaitForChild ==
    /\ pc = "Waiting"
    /\ elapsed < timeout
    /\ elapsed' = elapsed + 1
    /\ UNCHANGED <<pc, root, test_cases, idx, prediction, result, correct, score,
                   total_questions, temp_dir, child, alive, main_file, reprompts,
                   exit_kind, child_exit, final_report, shown, log>>

\* the child exits before the deadline: its status and the bytes it wrote are
\* collected
ChildExits ==
    /\ pc = "Waiting"
    /\ elapsed < timeout
    /\ \E o \in ChildOutcomes \cup ByteOutcomes : child_exit' = o
    /\ child' = "exited"
    /\ alive' = reaped(alive, idx)
    /\ elapsed' = 0
    /\ pc' = "Captured"
    /\ UNCHANGED <<root, test_cases, idx, prediction, result, correct, score,
                   total_questions, temp_dir, main_file, reprompts, exit_kind,
                   final_report, shown, log>>

\* subprocess.run decodes the bytes and returns, and the dict is built; bytes
\* that do not decode raise UnicodeDecodeError inside the try
ReturnCompleted ==
    /\ pc = "Captured"
    /\ LET out == decode(child_exit.stdout)
           err == decode(child_exit.stderr)
       IN  IF out.ok /\ err.ok
           THEN /\ result' = completed(child_exit.returncode, out.text, err.text)
                /\ temp_dir' = FALSE
                /\ pc' = "Check"
                /\ Logged(<<"run_return">>)
                /\ UNCHANGED <<child, alive, exit_kind, elapsed>>
           ELSE RaisedInTry("UnicodeDecodeError", MsgDecodeError)
    /\ UNCHANGED <<root, test_cases, idx, prediction, correct, score,
                   total_questions, main_file, reprompts>>
    /\ UNCHANGED <<child_exit, final_report, shown>>

\* mutant of ChildTimesOut: no timeout, subprocess.run goes on waiting
ChildNeverTimesOut ==
    /\ pc = "Waiting"
    /\ elapsed = timeout
    /\ UNCHANGED vars

\* the deadline passes: subprocess.run kills the child and raises TimeoutExpired
ChildTimesOut ==
    /\ pc = "Waiting"
    /\ elapsed = timeout
    /\ RaisedInTry("TimeoutExpired", MsgTimeoutExpired)
    /\ UNCHANGED <<root, test_cases, idx, prediction, correct, score,
                   total_questions, main_file, reprompts>>
    /\ UNCHANGED <<child_exit, final_report, shown>>

\* correct = self.check_prediction(prediction, result)
CheckPrediction ==
    /\ pc = "Check"
    /\ correct' = check_prediction(prediction, result)
    /\ pc' = "Score"
    /\ Logged(<<"check">>)
    /\ UNCHANGED <<root, test_cases, idx, prediction, result, score,
                   total_questions, temp_dir, child, alive, main_file, reprompts,
                   exit_kind>>
    /\ UNCHANGED <<child_exit, final_report, shown, elapsed>>

\* mutant of UpdateScore: total_questions is not incremented
UpdateScoreWithoutTotal ==
    /\ pc = "Score"
    /\ score' = IF prediction # "skip" /\ correct THEN score + 1 ELSE score
    /\ pc' = "Reporting"
    /\ Logged(<<"score">>)
    /\ UNCHANGED <<root, test_cases, idx, prediction, result, correct, temp_dir,
                   child, alive, main_file, reprompts, exit_kind, total_questions>>
    /\ UNCHANGED <<child_exit, final_report, shown, elapsed>>

\* mutant of UpdateScore: a skipped round is counted as well
UpdateScoreCountingSkips ==
    /\ pc = "Score"
    /\ total_questions' = total_questions + 1
    /\ score' = IF correct THEN score + 1 ELSE score
    /\ pc' = "Reporting"
    /\ Logged(<<"score">>)
    /\ UNCHANGED <<root, test_cases, idx, prediction, result, correct, temp_dir,
                   child, alive, main_file, reprompts, exit_kind>>
    /\ UNCHANGED <<child_exit, final_report, shown, elapsed>>

\* if prediction != "skip": total_questions += 1; if correct: score += 1
UpdateScore ==
    /\ pc = "Score"
    /\ IF prediction # "skip"
       THEN /\ total_questions' = total_questions + 1
            /\ score' = IF correct THEN score + 1 ELSE score
       ELSE UNCHANGED <<total_questions, score>>
    /\ pc' = "Reporting"
    /\ Logged(<<"score">>)
    /\ UNCHANGED <<root, test_cases, idx, prediction, result, correct, temp_dir,
                   child, alive, main_file, reprompts, exit_kind>>
    /\ UNCHANGED <<child_exit, final_report, shown, elapsed>>

\* mutant of DisplayResult: it returns without waiting for Enter
DisplayResultWithoutWait ==
    /\ pc = "Reporting"
    /\ shown' = display_result(result, prediction, correct)
    /\ Logged(<<"report">>)
    /\ IF idx < Len(test_cases)
       THEN idx' = idx + 1 /\ pc' = "Displaying"
       ELSE pc' = "FinalScore" /\ UNCHANGED idx
    /\ UNCHANGED <<root, test_cases, prediction, result, correct, score,
                   total_questions, temp_dir, child, alive, main_file, reprompts,
                   exit_kind>>
    /\ UNCHANGED <<child_exit, final_report, elapsed>>

\* display_result prints the outcome and the verdict, then waits for Enter
DisplayResult ==
    /\ pc = "Reporting"
    /\ pc' = "AwaitAck"
    /\ shown' = display_result(result, prediction, correct)
    /\ Logged(<<"report">>)
    /\ UNCHANGED <<root, test_cases, idx, prediction, result, correct, score,
                   total_questions, temp_dir, child, alive, main_file, reprompts,
                   exit_kind>>
    /\ UNCHANGED <<child_exit, final_report, elapsed>>

\* Enter is pressed: the for loop takes the next fixture or ends
Acknowledge ==
    /\ pc = "AwaitAck"
    /\ shown' = NoDisplay
    /\ Logged(<<"ack">>)
    /\ IF idx < Len(test_cases)
       THEN idx' = idx + 1 /\ pc' = "Displaying"
       ELSE pc' = "FinalScore" /\ UNCHANGED idx
    /\ UNCHANGED <<root, test_cases, prediction, result, correct, score,
                   total_questions, temp_dir, child, alive, main_file, reprompts,
                   exit_kind>>
    /\ UNCHANGED <<child_exit, final_report, elapsed>>

\* display_final_score, after which run_quiz and main return
DisplayFinalScore ==
    /\ pc = "FinalScore"
    /\ final_report' = display_final_score(score, total_questions)
    /\ IF "raised" \in DOMAIN display_final_score(score, total_questions)
       THEN Leave(main_exit(display_final_score(score, total_questions).raised))
       ELSE /\ pc' = "Done"
            /\ exit_kind' = "completed"
            /\ UNCHANGED <<temp_dir, child, alive>>
    /\ UNCHANGED <<root, test_cases, idx, prediction, result, correct, score,
                   total_questions, main_file, reprompts, log>>
    /\ UNCHANGED <<child_exit, shown, elapsed>>

\* the steps of run_test_case inside its try
TrySteps == {"Spawn", "Waiting", "Captured"}

\* KeyboardInterrupt anywhere in run_quiz: inside the try of run_test_case it
\* meets the except clauses there first, then those of main
Interrupt ==
    /\ pc \notin {"Done"}
    /\ IF pc \in TrySteps
       THEN RaisedInTry("KeyboardInterrupt", <<>>)
       ELSE /\ Leave(main_exit("KeyboardInterrupt"))
            /\ UNCHANGED <<result, elapsed, log>>
    /\ UNCHANGED <<root, test_cases, idx, prediction, correct, score,
                   total_questions, main_file, reprompts>>
    /\ UNCHANGED <<child_exit, final_report, shown>>

\* what a print, an input or a directory listing raises
StepExceptions == {"OSError", "EOFError"}

\* any other exception of a listing, display or input step (OSError of
\* iterdir or print, EOFError of input): it leaves run_quiz
StepRaises ==
    /\ pc \in {"run_quiz", "StartPrompt", "Displaying", "AwaitingPrediction",
               "Reporting", "AwaitAck", "FinalScore"}
    /\ \E exc \in StepExceptions : Leave(main_exit(exc))
    /\ UNCHANGED <<root, test_cases, idx, prediction, result, correct, score,
                   total_questions, main_file, reprompts, log>>
    /\ UNCHANGED <<child_exit, final_report, shown, elapsed>>

Next ==
    \/ ListTestCases
    \/ StartQuiz
    \/ DisplayTestCase
    \/ AskPrediction
    \/ CopyTestCase
    \/ CopyRaises
    \/ LocateMainFile
    \/ SpawnChild
    \/ SpawnRaises
    \/ WaitForChild
    \/ ChildExits
    \/ ReturnCompleted
    \/ ChildTimesOut
    \/ CheckPrediction
    \/ UpdateScore
    \/ DisplayResult
    \/ Acknowledge
    \/ DisplayFinalScore
    \/ Interrupt
    \/ StepRaises

Spec == Init /\ [][Next]_vars

(***************************************************************************)
(* The quiz left to run: no interrupt and no exception is raised, every    *)
(* prompt gets a line, the line is valid after at most MaxReprompts        *)
(* invalid ones, and the control thread takes each step it can take.       *)
(***************************************************************************)
NextQuiet ==
    \/ ListTestCases
    \/ StartQuiz
    \/ DisplayTestCase
    \/ AskPrediction
    \/ CopyTestCase
    \/ LocateMainFile
    \/ SpawnChild
    \/ WaitForChild
    \/ ChildExits
    \/ ReturnCompleted
    \/ ChildTimesOut
    \/ CheckPrediction
    \/ UpdateScore
    \/ DisplayResult
    \/ Acknowledge
    \/ DisplayFinalScore

SpecQuiet == Init /\ [][NextQuiet]_vars /\ WF_vars(NextQuiet)

(***************************************************************************)
(* check_prediction as a function: the call in run_quiz, entered with      *)
(* every prediction and every result dict of the bounded text sets.        *)
(***************************************************************************)
\* result dicts: with and without the "error" key, either success flag
ResultDicts ==
    { completed(rc, <<>>, err) : rc \in ReturnCodes, err \in Texts }
    \cup { [success |-> s, error |-> e, output |-> <<>>, stderr |-> err] :
             s \in BOOLEAN, e \in ErrorTexts, err \in Texts }

InitCheck ==
    /\ pc = "Check"
    /\ root = [exists |-> TRUE,
               entries |-> { d \in EntryUniverse : d.name = <<"0","2">> }]
    /\ test_cases \in { get_test_cases(root, l) : l \in iterdir(root) }
    /\ idx = 1
    /\ prediction \in {"skip"} \cup { predictions[k] : k \in 1..6 }
    /\ result \in ResultDicts
    /\ correct = FALSE
    /\ score = 0
    /\ total_questions = 0
    /\ temp_dir = FALSE
    /\ child = IF "returncode" \in DOMAIN result THEN "exited" ELSE "none"
    /\ main_file = "main.py"
    /\ reprompts = 0
    /\ exit_kind = "running"
    /\ child_exit = IF "returncode" \in DOMAIN result
                    THEN [returncode |-> result.returncode,
                          stdout |-> result.output, stderr |-> result.stderr]
                    ELSE NoProcess
    /\ final_report = NoReport
    /\ shown = NoDisplay
    /\ elapsed = 0
    /\ alive = {}
    /\ log = IF "returncode" \in DOMAIN result
             THEN <<<<"display", 1>>, <<"predicted", 1>>, <<"run_call", 1>>,
                    <<"launch", 1>>, <<"run_return", 1>>>>
             ELSE <<<<"display", 1>>, <<"predicted", 1>>, <<"run_call", 1>>,
                    <<"run_return", 1>>>>

NextCheck == CheckPrediction

SpecCheck == InitCheck /\ [][NextCheck]_vars


(***************************************************************************)
(* Properties                                                              *)
(***************************************************************************)
Events == { log[k] : k \in 1..Len(log) }

\* the fields check_prediction reads, as it reads them
success_of(r) == get(r, "success", FALSE)
stderr_of(r) == lower(get(r, "stderr", <<>>))
error_of(r) == lower(get(r, "error", <<>>))

\* check_prediction has returned for the current prediction and result
Checked == pc = "Score"

has_module_not_found(text) ==
    contains(S_modulenotfounderror, text) \/ contains(S_no_module_named, text)

\* from the call of run_test_case to the call of check_prediction the
\* prediction stays what ask_prediction returned
PredictionKept ==
    pc \in {"Running", "Locate", "Spawn", "Waiting", "Captured", "Check"} =>
        prediction' = prediction

\* C1: the prediction of a fixture is entered before run_test_case is called
\* and before a child is launched for it, check_prediction is called only
\* after run_test_case returned that fixture's result, and the prediction
\* does not change from its entry to the check.
C1_PredictionBeforeExecution ==
    /\ [](/\ \A k \in 1..Len(log) :
               /\ log[k][1] \in {"run_call", "launch"} =>
                      \E j \in 1..(k - 1) : log[j] = <<"predicted", log[k][2]>>
               /\ log[k][1] = "check" =>
                      \E j \in 1..(k - 1) : log[j] = <<"run_return", log[k][2]>>
          /\ child = "running" =>
                 /\ <<"predicted", idx>> \in Events
                 /\ prediction \in {"skip"} \cup { predictions[k] : k \in 1..6 })
    /\ [][PredictionKept]_vars

\* a child was launched for the second fixture and its result checked
C1_Witness ==
    /\ Checked
    /\ idx = 2
    /\ <<"launch", 2>> \in Events
    /\ prediction = "other"

\* the step that may directly precede step e of the log
Predecessors(e) ==
    CASE e[1] = "display" -> { <<"ack", e[2] - 1>> }
      [] e[1] = "predicted" -> { <<"display", e[2]>> }
      [] e[1] = "run_call" -> { <<"predicted", e[2]>> }
      [] e[1] = "launch" -> { <<"run_call", e[2]>> }
      [] e[1] = "run_return" -> { <<"run_call", e[2]>>, <<"launch", e[2]>> }
      [] e[1] = "check" -> { <<"run_return", e[2]>> }
      [] e[1] = "score" -> { <<"check", e[2]>> }
      [] e[1] = "report" -> { <<"score", e[2]>> }
      [] e[1] = "ack" -> { <<"report", e[2]>> }
      [] OTHER -> {}

\* C2: the fixtures are processed one at a time, in the sorted order of the
\* list, each at most once: the steps of a fixture follow each other as
\* display, prediction, run, check, score, report, acknowledgment, and the
\* display of fixture i + 1 directly follows the acknowledgment of fixture i.
C2_OneFixtureAtATime ==
    /\ \A k \in 1..Len(log) :
         /\ log[k][2] \in 1..Len(test_cases)
         /\ log[k][2] <= idx
         /\ IF k = 1 THEN log[k] = <<"display", 1>>
            ELSE log[k] # <<"display", 1>> /\ log[k - 1] \in Predecessors(log[k])
         /\ \A j \in 1..(k - 1) : log[j] # log[k]
    /\ \A i \in 1..Len(test_cases) : \A j \in (i + 1)..Len(test_cases) :
         str_less(test_cases[i].name, test_cases[j].name)

\* a run of two fixtures that reached the final score
C2_Witness ==
    /\ pc = "Done"
    /\ exit_kind = "completed"
    /\ Len(test_cases) = 2
    /\ <<"ack", 2>> \in Events

\* C3: with success = true, whatever stderr and error hold, the prediction
\* "success" is correct and the five error predictions are not.
C3_SuccessOnlyMatchesSuccess ==
    (Checked /\ success_of(result) /\ prediction # "skip")
        => (correct <=> prediction = "success")

\* a successful result whose stderr holds a marker, predicted importerror
C3_Witness ==
    /\ Checked
    /\ success_of(result)
    /\ contains(S_importerror, stderr_of(result))
    /\ prediction = "importerror"
    /\ ~correct

\* C4 (as claimed): a failed result whose stderr holds a module-not-found
\* marker matches "modulenotfounderror" and does not match "importerror",
\* also when the stderr holds "importerror" too.
C4_ModuleNotFoundBeforeImportError ==
    (Checked /\ ~success_of(result) /\ has_module_not_found(stderr_of(result)))
        => /\ prediction = "modulenotfounderror" => correct
           /\ prediction = "importerror" => ~correct

\* stderr is "...ModuleNotFoundError: No module named 'x'..." and neither it
\* nor the error text holds an ImportError token
ScenarioB(r) ==
    /\ contains(F_ModuleNotFoundError \o F_NoModuleNamed, get(r, "stderr", <<>>))
    /\ ~contains(S_importerror, stderr_of(r))
    /\ ~contains(S_importerror, error_of(r))

\* C5: a failed result whose stderr is "ModuleNotFoundError: No module named X"
\* with no ImportError token matches "modulenotfounderror" and not "importerror".
C5_MissingModuleScenario ==
    (Checked /\ ~success_of(result) /\ ScenarioB(result))
        => /\ prediction = "modulenotfounderror" => correct
           /\ prediction = "importerror" => ~correct

C5_Witness ==
    /\ Checked
    /\ ~success_of(result)
    /\ ScenarioB(result)
    /\ prediction = "modulenotfounderror"
    /\ correct

\* C6: a failed result whose stderr holds "importerror" (any case) and no
\* module-not-found marker matches "importerror" and matches neither
\* "modulenotfounderror" nor "other".
C6_ImportErrorAlone ==
    (/\ Checked
     /\ ~success_of(result)
     /\ contains(S_importerror, stderr_of(result))
     /\ ~has_module_not_found(stderr_of(result)))
        => /\ prediction = "importerror" => correct
           /\ prediction \in {"modulenotfounderror", "other"} => ~correct

C6_Witness ==
    /\ Checked
    /\ ~success_of(result)
    /\ contains(S_importerror, stderr_of(result))
    /\ ~has_module_not_found(stderr_of(result))
    /\ prediction = "other"
    /\ ~correct

\* C7: the prediction "skip" matches no result.
C7_SkipNeverMatches ==
    (Checked /\ prediction = "skip") => ~correct

\* skip against a failed result with no marker, which "other" would match
C7_Witness ==
    /\ Checked
    /\ prediction = "skip"
    /\ ~success_of(result)
    /\ check_prediction("other", result)
    /\ ~correct

\* one of the four error classes is detected in the text
class_detected(text) ==
    \/ has_module_not_found(text)
    \/ contains(S_importerror, text)
    \/ contains(S_attributeerror, text)
    \/ contains(S_syntaxerror, text)

\* C8 (as claimed): "other" matches exactly when success is false and none of
\* the four error classes is detected in the stderr or in the error text.
C8_OtherIffNoClassDetected ==
    (Checked /\ prediction = "other")
        => (correct <=> /\ ~success_of(result)
                        /\ ~class_detected(stderr_of(result))
                        /\ ~class_detected(error_of(result)))

\* the predictions of the menu that match result r
matching(r) == { p \in { predictions[k] : k \in 1..6 } : check_prediction(p, r) }

\* C9 (as claimed): every result matches exactly one of the six predictions.
C9_ExactlyOneCategory ==
    Checked => Cardinality(matching(result)) = 1

\* run_test_case has returned for the current fixture
Returned == pc = "Check"

\* run_test_case was called for fixture i / a child launched / a result returned
Called(i) == <<"run_call", i>> \in Events
Launched(i) == <<"launch", i>> \in Events
ReturnedFor(i) == <<"run_return", i>> \in Events

\* C11 (as claimed): run_test_case never raises to its caller: when main has
\* reported an error, every fixture run_test_case was called for got a result
\* from it and was scored.
C11_RunnerNeverRaises ==
    exit_kind = "error"
        => \A i \in 1..Len(test_cases) :
               Called(i) => (ReturnedFor(i) /\ <<"score", i>> \in Events)

\* run_test_case is running: between its call and its return
InRunTestCase == pc \in {"Locate", "Spawn", "Waiting", "Captured"}

\* C12: whenever no run_test_case call is in progress, on whichever path the
\* last one ended, its temporary directory is gone and no child is running.
C12_NoLeakAfterRun ==
    ~InRunTestCase => (temp_dir = FALSE /\ child # "running")

\* the call for the first fixture ended by the timeout, the quiz went on
C12_Witness ==
    /\ pc = "Displaying"
    /\ idx = 2
    /\ Launched(1)
    /\ child = "killed"
    /\ ~temp_dir

\* the fixture of the current round has no entry file
NoEntryFile == find_main_file(test_cases[idx].files) = "none"

\* C13: for a fixture with none of main.py, run.py, test.py the result is
\* success = false with the missing-entry-file error, empty output and stderr
\* and no exit code, and no child was launched for it.
C13_NoEntryFileNoExecution ==
    (Returned /\ NoEntryFile)
        => /\ result = [success |-> FALSE, error |-> ErrNoMainFile,
                        output |-> <<>>, stderr |-> <<>>]
           /\ Len(result.error) > 0
           /\ ~Launched(idx)
           /\ child_exit = NoProcess
           /\ child # "running"

C13_Witness ==
    /\ Returned
    /\ NoEntryFile
    /\ idx = 2
    /\ ~Launched(2)
    /\ Launched(1)

S_timed_out ==
    <<"t","i","m","e","d"," ","o","u","t">>

\* the call for the current fixture ended at the deadline
TimedOut == Returned /\ Launched(idx) /\ child = "killed"

\* the deadline has passed with the child running, and run_test_case returns
DeadlineStep == pc = "Waiting" /\ elapsed = timeout /\ pc' = "Check"

\* at the deadline the child is killed and the timeout result returned
DeadlineKills ==
    DeadlineStep => (child' = "killed" /\ result' = harness_error(ErrTimedOut))

\* C14: a child still running at the deadline is killed, and the result is
\* success = false with no exit code, empty output and stderr, and an error
\* text that says "timed out" and is neither the missing-entry-file text nor
\* a spawn-failure text; no result is returned for a running child earlier.
C14_TimeoutResult ==
    /\ [](TimedOut
            => /\ result.success = FALSE
               /\ "returncode" \notin DOMAIN result
               /\ result.output = <<>>
               /\ result.stderr = <<>>
               /\ contains(S_timed_out, lower(result.error))
               /\ result.error # ErrNoMainFile
               /\ ~startswith(result.error, ErrFailedPrefix))
    /\ [][DeadlineKills]_vars

C14_Witness ==
    /\ TimedOut
    /\ idx = 2
    /\ "returncode" \notin DOMAIN result
    /\ temp_dir = FALSE

\* the child of the current call exited on its own
ExitedOnItsOwn == Returned /\ child_exit # NoProcess

\* C15 (as claimed): when the child exited on its own, success is true exactly
\* when the status is 0, the result has no "error" field, and output and
\* stderr are what the child wrote, unchanged.
C15_ExitStatusDecidesSuccess ==
    ExitedOnItsOwn
        => /\ result.success = (child_exit.returncode = 0)
           /\ "error" \notin DOMAIN result
           /\ result.output = child_exit.stdout
           /\ result.stderr = child_exit.stderr

\* C16 (as claimed): a result carries exactly one of exit code and error
\* description; the exit code is there exactly when the child was launched and
\* exited before the deadline; success implies exit code 0 and no error.
C16_ExitCodeXorError ==
    Returned
        => /\ ("returncode" \in DOMAIN result) # ("error" \in DOMAIN result)
           /\ ("returncode" \in DOMAIN result)
                  <=> (Launched(idx) /\ child_exit # NoProcess)
           /\ result.success
                  => /\ "returncode" \in DOMAIN result
                     /\ result.returncode = 0
                     /\ "error" \notin DOMAIN result

\* the scoring step of a round
ScoreStep == pc = "Score" /\ pc' = "Reporting"

\* the counters after a scoring step, and after any other step
CountersFollowPrediction ==
    IF ScoreStep
    THEN IF prediction # "skip"
         THEN /\ total_questions' = total_questions + 1
              /\ score' = score + (IF check_prediction(prediction, result)
                                   THEN 1 ELSE 0)
         ELSE UNCHANGED <<total_questions, score>>
    ELSE UNCHANGED <<total_questions, score>>

\* C17: the counters change in the scoring step of a round and nowhere else:
\* total_questions grows by 1 iff the prediction is not "skip", score by 1 iff
\* moreover check_prediction returned True; a skipped round changes neither.
C17_CountersFollowSkip ==
    /\ [](score <= total_questions /\ total_questions <= idx)
    /\ [][CountersFollowPrediction]_vars

\* the first round was answered and counted, the second skipped
C17_Witness ==
    /\ pc = "Reporting"
    /\ idx = 2
    /\ prediction = "skip"
    /\ total_questions = 1
    /\ score = 1

\* C18: display_final_score with total_questions = 0 divides nothing and
\* reports "No questions were answered."; a percentage is reported only with
\* total_questions > 0, of that score and total.
C18_NoDivisionByZero ==
    final_report # NoReport
        => /\ total_questions = 0
                => final_report = [kind |-> "no_questions", divided |-> FALSE]
           /\ total_questions > 0
                => /\ final_report.kind = "score"
                   /\ final_report.divided
                   /\ final_report.score = score
                   /\ final_report.total = total_questions
           /\ exit_kind = "completed"

\* both fixtures skipped
C18_Witness ==
    /\ final_report = [kind |-> "no_questions", divided |-> FALSE]
    /\ Len(test_cases) = 2
    /\ <<"ack", 2>> \in Events
    /\ prediction = "skip"

\* a KeyboardInterrupt ends main with the farewell, whatever the step
InterruptAborts ==
    Interrupt => (exit_kind' = "interrupted" /\ pc' = "Done" /\ log' = log)

\* after the farewell nothing changes any more
NothingAfterFarewell == exit_kind = "interrupted" => UNCHANGED vars

\* C19: a KeyboardInterrupt in any step of run_quiz ends the loop with the
\* farewell of main: no fixture is displayed, prompted for, run or scored
\* afterwards, no child is left running, and main has returned.
C19_InterruptAborts ==
    /\ [](exit_kind = "interrupted"
            => (pc = "Done" /\ child # "running" /\ final_report = NoReport))
    /\ [][InterruptAborts]_vars
    /\ [][NothingAfterFarewell]_vars

\* interrupted while the child of the second fixture was running
C19_Witness ==
    /\ exit_kind = "interrupted"
    /\ idx = 2
    /\ Launched(2)
    /\ ~ReturnedFor(2)
    /\ child = "killed"

\* an exception leaves run_quiz
EscapesRunQuiz == StepRaises \/ CopyRaises

\* an escaping exception ends main with the error report
EscapeIsReported ==
    EscapesRunQuiz => (exit_kind' = "error" /\ pc' = "Done" /\ score' = score)

\* after the error report nothing changes any more
NothingAfterReport == exit_kind = "error" => UNCHANGED vars

\* C20: an exception other than an interrupt that leaves a step of run_quiz
\* is taken by the catch-all clause of main, once: main reports it and
\* returns, and no exception leaves main.
C20_MainCatchesAll ==
    /\ [](exit_kind # "crashed" /\ (exit_kind = "error" => pc = "Done"))
    /\ [][EscapeIsReported]_vars
    /\ [][NothingAfterReport]_vars

\* the input of the acknowledgment of the first fixture raised
C20_Witness ==
    /\ exit_kind = "error"
    /\ idx = 1
    /\ <<"report", 1>> \in Events
    /\ <<"ack", 1>> \notin Events
    /\ Len(test_cases) = 2

\* the entries of the root that are directories and not hidden
VisibleDirs ==
    IF root.exists
    THEN { d \in root.entries : d.is_dir /\ (d.name = <<>> \/ d.name[1] # ".") }
    ELSE {}

\* get_test_cases returns to run_quiz
ListingStep == pc = "run_quiz" /\ pc' \in {"StartPrompt", "Done"} /\ exit_kind' \notin {"error", "interrupted"}

\* the list returned holds each visible directory once, ascending by name,
\* and with no root directory it is empty and run_quiz returns
ListingIsExact ==
    ListingStep
        => /\ { test_cases'[k] : k \in 1..Len(test_cases') } = VisibleDirs
           /\ Len(test_cases') = Cardinality(VisibleDirs)
           /\ \A i \in 1..Len(test_cases') : \A j \in (i + 1)..Len(test_cases') :
                  str_less(test_cases'[i].name, test_cases'[j].name)
           /\ ~root.exists => (test_cases' = <<>> /\ exit_kind' = "no_test_cases")

\* C21: get_test_cases returns exactly the entries of the root that are
\* directories and whose name does not start with ".", each once, ascending
\* by name; with no root directory it returns the empty list and raises
\* nothing.
C21_ListingIsExact ==
    /\ [](\A k \in 1..Len(test_cases) : test_cases[k] \in VisibleDirs)
    /\ [][ListingIsExact]_vars

\* a root holding a hidden directory beside a fixture: one test case listed
C21_Witness ==
    /\ pc = "StartPrompt"
    /\ Len(test_cases) = 1
    /\ \E d \in root.entries : d.is_dir /\ d.name[1] = "."

\* two calls on the same root may see its entries listed in different
\* orders: they return the same list
OrderIndependent ==
    ListingStep
        => \A listing \in iterdir(root) :
               test_cases' = get_test_cases(root, listing)

\* the call leaves the root, the counters and the rest of the quiz state alone
ListingFrame ==
    ListingStep
        => UNCHANGED <<root, idx, prediction, result, correct, score,
                       total_questions, temp_dir, child, alive, main_file,
                       reprompts, child_exit, final_report, shown, elapsed, log>>

\* no step of the quiz changes the root
RootKept == root' = root

\* C22: get_test_cases is idempotent and has no side effect on the quiz: for
\* an unchanged root every call returns the same ordered list, however the
\* directory is enumerated, and the call changes neither the root nor the
\* counters nor any other variable than the list it returns.
C22_ListingIdempotent ==
    /\ [][OrderIndependent]_vars
    /\ [][ListingFrame]_vars
    /\ [][RootKept]_vars

\* a root with two fixtures, which can be enumerated in two orders, listed
C22_Witness ==
    /\ pc = "StartPrompt"
    /\ Len(test_cases) = 2
    /\ Cardinality(iterdir(root)) = 2
    /\ score = 0

\* a step starts at most one process
OneLaunchPerStep == Cardinality(alive') <= Cardinality(alive) + 1

\* C23: at most one child process is alive at any moment; a child is alive
\* only while run_test_case waits for it, and it is the child of the fixture
\* of the current round; each run_test_case call launches at most one child.
C23_OneChildAtATime ==
    /\ [](/\ Cardinality(alive) <= 1
          /\ alive # {} => (pc = "Waiting" /\ child = "running")
          /\ \A p \in alive : p.fixture = idx
          /\ \A j, k \in 1..Len(log) :
                 (log[j][1] = "launch" /\ log[j] = log[k]) => j = k
          /\ \A k \in 1..Len(log) :
                 log[k][1] = "launch" => <<"run_call", log[k][2]>> \in Events)
    /\ [][OneLaunchPerStep]_vars

\* the child of the second fixture is running, that of the first has ended
C23_Witness ==
    /\ Cardinality(alive) = 1
    /\ idx = 2
    /\ Launched(1)
    /\ pc = "Waiting"
    /\ elapsed > 0

\* the seven tokens of the contract
Tokens == {"success", "importerror", "modulenotfounderror", "attributeerror",
           "syntaxerror", "other", "skip"}

\* the lines of InputLines that are neither "skip" nor a number 1..6
InvalidLines ==
    { <<"s","k","i","p","p">>, <<"0">>, <<"7">>, <<"-","1">>, <<"1","2">>,
      <<"a","b","c">>, <<>>, <<"1",".","5">>, <<"S","u","c","c","e","s","s">> }

\* the valid lines of InputLines with the token each stands for
ValidAnswers ==
    { <<<<"s","k","i","p">>, "skip">>, <<<<" ","S","k","i","p"," ">>, "skip">>,
      <<<<"1">>, "success">>, <<<<"2">>, "importerror">>,
      <<<<"3">>, "modulenotfounderror">>, <<<<"4">>, "attributeerror">>,
      <<<<"5">>, "syntaxerror">>, <<<<"6">>, "other">>,
      <<<<" ","3"," ">>, "modulenotfounderror">>, <<<<"+","2">>, "importerror">>,
      <<<<"0","6">>, "other">> }

\* ask_prediction on each line: a token for a valid line, another pass of the
\* loop for an invalid one
AnswersAsExpected ==
    /\ InputLines = InvalidLines \cup { a[1] : a \in ValidAnswers }
    /\ \A line \in InvalidLines : ask_prediction(line) = "reprompt"
    /\ \A a \in ValidAnswers : ask_prediction(a[1]) = a[2] /\ a[2] \in Tokens

\* a line is read by ask_prediction and no exception or interrupt occurs
PromptStep == pc = "AwaitingPrediction" /\ exit_kind' = exit_kind

\* the line read either ends the prompt with a token or is asked again, in
\* the same round
RepromptInPlace ==
    PromptStep
        => \/ /\ pc' = "AwaitingPrediction"
              /\ reprompts' = reprompts + 1
              /\ UNCHANGED <<idx, prediction, result, score, total_questions,
                             child, alive, temp_dir, log>>
           \/ /\ pc' = "Running"
              /\ prediction' \in Tokens
              /\ log' = Append(log, <<"predicted", idx>>)
              /\ UNCHANGED <<idx, result, score, total_questions, child, alive,
                             temp_dir, reprompts>>

\* C24: ask_prediction returns only one of the seven tokens; an invalid line
\* (not a number, or a number outside 1..6) is asked again in the same round:
\* the fixture stays the same, no child is launched, the counters are kept.
C24_RepromptInPlace ==
    /\ [](AnswersAsExpected /\ prediction \in Tokens \cup {"none"})
    /\ [][RepromptInPlace]_vars

\* two invalid lines, then a valid one, in the round of the second fixture
C24_Witness ==
    /\ pc = "Running"
    /\ idx = 2
    /\ reprompts = 2
    /\ <<"predicted", 2>> \in Events
    /\ ~Called(2)

\* the two fixed harness-level error results of run_test_case
FixedHarnessErrors == { harness_error(ErrNoMainFile), harness_error(ErrTimedOut) }

\* C25: for the missing-entry-file result and the timeout result,
\* check_prediction is True for "other" and False for "success",
\* "importerror", "modulenotfounderror", "attributeerror" and "syntaxerror".
C25_HarnessErrorsAreOther ==
    (Checked /\ result \in FixedHarnessErrors /\ prediction # "skip")
        => (correct <=> prediction = "other")

\* the child of the second fixture was stopped at the deadline, "other" predicted
C25_Witness ==
    /\ Checked
    /\ idx = 2
    /\ result = harness_error(ErrTimedOut)
    /\ child = "killed"
    /\ prediction = "other"
    /\ correct

\* the candidate that wins among files: main.py over run.py over test.py
FirstCandidate(files) ==
    IF "main.py" \in files THEN "main.py"
    ELSE IF "run.py" \in files THEN "run.py"
    ELSE "test.py"

\* C26: the child of a fixture runs the first of main.py, run.py, test.py
\* that the fixture holds, as a file of the copy in the temporary directory
\* and with that copy as working directory.
C26_FirstCandidateInCopy ==
    \A p \in alive :
        /\ p.file.name \in test_cases[p.fixture].files
        /\ p.file.name = FirstCandidate(test_cases[p.fixture].files)
        /\ p.file.parent = "test_copy"
        /\ p.cwd = "test_copy"
        /\ temp_dir

\* main.py runs for a fixture holding all three, run.py for the next one
\* holding run.py and test.py
C26_Witness ==
    /\ idx = 2
    /\ test_cases[1].files = {"main.py", "run.py", "test.py"}
    /\ test_cases[2].files = {"run.py", "test.py"}
    /\ Launched(1)
    /\ \E p \in alive : p.file.name = "run.py"

\* the fixtures whose run_test_case call has returned
Executed == { e \in Events : e[1] = "run_return" }

\* the counters never go down, and move only in the scoring step
CountersMonotone ==
    /\ score' >= score
    /\ total_questions' >= total_questions
    /\ (score' # score \/ total_questions' # total_questions) => ScoreStep

\* C27: always 0 <= score <= total_questions <= fixtures executed <= fixtures
\* listed; neither counter decreases, and only the scoring step of run_quiz
\* changes them.
C27_CounterBounds ==
    /\ [](/\ 0 <= score
          /\ score <= total_questions
          /\ total_questions <= Cardinality(Executed)
          /\ Cardinality(Executed) <= Len(test_cases))
    /\ [][CountersMonotone]_vars

\* both fixtures executed and counted, one of them predicted correctly
C27_Witness ==
    /\ Cardinality(Executed) = 2
    /\ total_questions = 2
    /\ score = 1
    /\ pc = "Reporting"

\* the step after a completed prediction is the call of run_test_case,
\* unless an interrupt ends the quiz there
CallFollowsPrediction ==
    (pc = "Running" /\ exit_kind' # "interrupted")
        => log' = Append(log, <<"run_call", idx>>)

\* what is on display is the outcome of the result run_test_case returned
ShowsActualOutcome ==
    shown # NoDisplay
        => /\ shown.headline = IF result.success THEN "SUCCESS" ELSE "ERROR"
           /\ shown.output = result.output
           /\ ~result.success
                  => /\ shown.details = result.stderr
                     /\ "error" \in DOMAIN result => shown.error = result.error
           /\ shown.verdict = "SKIPPED" <=> prediction = "skip"

\* C28: a skipped fixture is run like any other: after every completed
\* prediction, "skip" included, run_test_case is called, once; a fixture is
\* reported only after its call returned, and display_result then shows the
\* outcome of that result, with the skipped notice for a skip.
C28_SkippedStillRuns ==
    /\ [](/\ \A i \in 1..Len(test_cases) :
                 <<"report", i>> \in Events => (Called(i) /\ ReturnedFor(i))
          /\ \A j, k \in 1..Len(log) :
                 (log[j][1] = "run_call" /\ log[j] = log[k]) => j = k
          /\ ShowsActualOutcome)
    /\ [][CallFollowsPrediction]_vars

\* a skipped fixture whose child failed: the error and its stderr are shown
C28_Witness ==
    /\ pc = "AwaitAck"
    /\ prediction = "skip"
    /\ Launched(idx)
    /\ shown # NoDisplay
    /\ shown.verdict = "SKIPPED"
    /\ shown.headline = "ERROR"
    /\ shown.details # <<>>

\* display_final_score has run after the acknowledgment of the last fixture
FinalScoreShown ==
    /\ pc = "Done"
    /\ exit_kind = "completed"
    /\ final_report # NoReport
    /\ <<"ack", Len(test_cases)>> \in Events

\* the final report is written once
ReportedOnce == final_report # NoReport => final_report' = final_report

\* C29: with valid input arriving at every prompt, no interrupt or exception,
\* and every child exiting or being stopped at the timeout, run_quiz on a
\* non-empty list reaches the end of the list and calls display_final_score,
\* once, after the last report was acknowledged.
C29_QuizTerminates ==
    /\ <>(pc = "Done")
    /\ []((pc = "Done" /\ Len(test_cases) > 0) => FinalScoreShown)
    /\ [](final_report # NoReport => FinalScoreShown)
    /\ [][ReportedOnce]_vars

\* a completed quiz of two fixtures, the child of the last stopped at the timeout
C29_Witness ==
    /\ FinalScoreShown
    /\ Len(test_cases) = 2
    /\ child = "killed"
    /\ total_questions = 2


(***************************************************************************)
(* C30: the final score is displayed only on full completion.              *)
(***************************************************************************)
\* get_test_cases returned fixtures and the report of each was acknowledged
AllProcessed ==
    /\ Len(test_cases) > 0
    /\ \A i \in 1..Len(test_cases) : <<"ack", i>> \in Events

\* run_quiz has reached its call of display_final_score
FinalScoreCalled == pc = "FinalScore" \/ final_report # NoReport

\* main ended on an interrupt, an escaping exception or an empty list
EndedEarly ==
    /\ pc = "Done"
    /\ exit_kind \in {"interrupted", "error", "no_test_cases"}

\* the acknowledgment of the last report is followed by display_final_score
LastAckCalls ==
    (pc = "AwaitAck" /\ idx = Len(test_cases) /\ <<"ack", idx>> \in Events')
        => pc' = "FinalScore"

\* C30: display_final_score is called exactly when get_test_cases returned a
\* non-empty list and every fixture was processed with no interrupt and no
\* escaping exception; a quiz that ends on an interrupt, an exception or an
\* empty list has reported no counters, whatever score was accumulated.
C30_FinalScoreOnlyOnCompletion ==
    /\ [](FinalScoreCalled => (AllProcessed /\ exit_kind # "no_test_cases"))
    /\ [](EndedEarly => final_report = NoReport)
    /\ []((pc = "Done" /\ exit_kind = "completed") => final_report # NoReport)
    /\ [][LastAckCalls]_vars

\* an interrupt after one correct answer: the score is never reported
C30_Witness ==
    /\ pc = "Done"
    /\ exit_kind = "interrupted"
    /\ score = 1
    /\ total_questions = 1
    /\ final_report = NoReport

=============================================================================
